---- MODULE Spec2Model ----
(***************************************************************************)
(* Show-Attend-and-Tell: the training script train.py and dataset.py.      *)
(*                                                                         *)
(*   Spec      the epoch loop of main (train.py 48-59) with train() and    *)
(*             validate(), started at line 48 with the modules, the        *)
(*             optimizer, the scheduler and the two loaders built.         *)
(*   SpecLoss  the loss of one batch (train.py 79-82) on bounded attention *)
(*             tensors, in exact rational arithmetic.                      *)
(*   SpecMain  the set-up code of main (train.py 24-48) with               *)
(*             ImageCaptionDataset.__init__ (dataset.py 15-22).            *)
(***************************************************************************)
EXTENDS Integers, Sequences, FiniteSets

VARIABLES
    \* ---- the epoch loop (Spec)
    pc,                \* position of main's single thread
    epochs,            \* args.epochs
    nTrain,            \* len(train_loader)
    nVal,              \* len(val_loader)
    epoch,             \* the loop variable of main, 0 before the loop
    batch_idx,         \* the loop variable of train / validate
    encoderTraining,   \* encoder.training
    decoderTraining,   \* decoder.training
    encoderParams,     \* version of the encoder's parameters
    decoderParams,     \* version of the decoder's parameters
    optimizer,         \* Adam over decoder.parameters(): calls made on it
    scheduler,         \* StepLR: last_epoch
    losses, top1, top5,\* the AverageMeters of the running pass
    passBatches,       \* the batches the running pass has processed
    batch,             \* the batch processed last: shapes and packed tensors
    files,             \* what torch.save has written
    written,           \* scalar records given to the two SummaryWriters
    trace,             \* the steps of main taken so far, in order
    failure,           \* the exception that left main, "none" while running
    \* ---- the loss of one batch (SpecLoss)
    lpc, alpha_c, alphas, ce, att_regularization, loss,
    \* ---- the set-up code of main (SpecMain)
    mpc, dataArg, fs, opened, train_dataset, val_dataset, startError

loopVars == <<pc, epochs, nTrain, nVal, epoch, batch_idx, encoderTraining,
              decoderTraining, encoderParams, decoderParams, optimizer,
              scheduler, losses, top1, top5, passBatches, batch, files,
              written, trace, failure>>
lossVars == <<lpc, alpha_c, alphas, ce, att_regularization, loss>>
mainVars == <<mpc, dataArg, fs, opened, train_dataset, val_dataset, startError>>
vars == <<loopVars, lossVars, mainVars>>

(***************************************************************************)
(* Bounds of the model.                                                    *)
(***************************************************************************)
MaxEpochs == 2      \* args.epochs ranges over 1..MaxEpochs
MaxBatches == 2     \* len(loader) ranges over 1..MaxBatches
MaxB == 2           \* samples in a batch: 1..MaxB
MaxL == 3           \* padded caption length of a batch: 2..MaxL

(***************************************************************************)
(* Helpers on sequences of numbers.                                        *)
(***************************************************************************)
RECURSIVE SumSeq(_)
SumSeq(s) == IF s = <<>> THEN 0 ELSE Head(s) + SumSeq(Tail(s))

Range(s) == {s[i] : i \in 1..Len(s)}

(***************************************************************************)
(* str(epoch): the decimal digits of a natural number.                     *)
(***************************************************************************)
RECURSIVE Str(_)
Str(n) == IF n < 10 THEN <<n>> ELSE Str(n \div 10) \o <<n % 10>>

\* A mutant of ModelFile: the path does not name the epoch.
ModelFileNoEpoch(e) == <<"model/model_", <<>>, ".pth">>

\* model_file = 'model/model_' + str(epoch) + '.pth'
ModelFile(e) == <<"model/model_", Str(e), ".pth">>

\* decoder.state_dict(): the decoder's parameters and nothing else.
StateDict(params) == [module |-> "decoder", params |-> params]

(***************************************************************************)
(* AverageMeter (utils): update(value, weight).                            *)
(***************************************************************************)
AverageMeter == [sum |-> 0, count |-> 0]

Update(m, val, n) == [sum |-> m.sum + val * n, count |-> m.count + n]

(***************************************************************************)
(* One batch.  A caption tensor of shape [B, L] is a sequence of B rows of *)
(* length L; the entry of sample b at (0-based) position j is written      *)
(* <<b, j>>, so that what a slice or a packing keeps can be read off.      *)
(***************************************************************************)
Captions(B, L) == [b \in 1..B |-> [j \in 1..L |-> <<b, j - 1>>]]

\* decoder(img_features, captions): predictions of shape [B, L-1, V]; the
\* entry for sample b and target position j is written <<b, j>>.
DecoderPreds(B, L) == [b \in 1..B |-> [j \in 1..(L - 1) |-> <<b, j>>]]

\* captions[:, 1:]
DropFirst(x) == [b \in 1..Len(x) |-> SubSeq(x[b], 2, Len(x[b]))]

\* [len(row) - 1 for row in x]
LengthsMinusOne(x) == [b \in 1..Len(x) |-> Len(x[b]) - 1]

\* pack_padded_sequence raises when a length is not positive.
PackRaises(lengths) == \E b \in 1..Len(lengths) : lengths[b] <= 0

Max(S) == CHOOSE m \in S : \A n \in S : n <= m

\* pack_padded_sequence(x, lengths, batch_first=True)[0]: time step by time
\* step, the entries of the samples that are at least that long.
RECURSIVE PackFrom(_, _, _, _)
PackFrom(x, lengths, t, b) ==
    IF t > Max(Range(lengths) \cup {0}) THEN <<>>
    ELSE IF b > Len(x) THEN PackFrom(x, lengths, t + 1, 1)
    ELSE (IF lengths[b] >= t THEN <<x[b][t]>> ELSE <<>>)
         \o PackFrom(x, lengths, t, b + 1)

PackPaddedSequence(x, lengths) == PackFrom(x, lengths, 1, 1)

\* sum([len(caption) for caption in captions])
TotalCaptionLength(captions) ==
    SumSeq([b \in 1..Len(captions) |-> Len(captions[b])])

\* What the decoder's output turns out to be on a batch: the loss of the
\* batch and its top-1 and top-5 accuracies (top-5 >= top-1).
Outcomes ==
    { [loss |-> 0, acc1 |-> 100, acc5 |-> 100],
      [loss |-> 2, acc1 |-> 0,   acc5 |-> 100] }

NoBatch == [B |-> 0, L |-> 0, targets |-> <<>>, preds |-> <<>>, weight |-> 0]

\* Lines 74-77 and 86 of train (115-118 and 125 of validate) on a batch of
\* B captions of length L.
Processed(B, L) ==
    LET captions == Captions(B, L)
        targets  == DropFirst(captions)
        preds    == DecoderPreds(B, L)
    IN  [B |-> B, L |-> L,
         targets |-> PackPaddedSequence(targets, LengthsMinusOne(targets)),
         preds   |-> PackPaddedSequence(preds, LengthsMinusOne(preds)),
         weight  |-> TotalCaptionLength(captions)]

BatchRaises(B, L) ==
    \/ PackRaises(LengthsMinusOne(DropFirst(Captions(B, L))))
    \/ PackRaises(LengthsMinusOne(DecoderPreds(B, L)))

(***************************************************************************)
(* The epoch loop.                                                         *)
(***************************************************************************)
LoopIdle ==
    /\ pc = "idle" /\ epochs = 0 /\ nTrain = 0 /\ nVal = 0 /\ epoch = 0
    /\ batch_idx = 0 /\ encoderTraining = TRUE /\ decoderTraining = TRUE
    /\ encoderParams = 0 /\ decoderParams = 0
    /\ optimizer = [zero_grad |-> 0, step |-> 0]
    /\ scheduler = [last_epoch |-> 0]
    /\ losses = AverageMeter /\ top1 = AverageMeter /\ top5 = AverageMeter
    /\ passBatches = <<>> /\ batch = NoBatch /\ files = {}
    /\ written = [train |-> 0, val |-> 0]
    /\ trace = <<>> /\ failure = "none"

LossIdle ==
    /\ lpc = "idle" /\ alpha_c = 0 /\ alphas = <<>> /\ ce = <<0, 1>>
    /\ att_regularization = <<0, 1>> /\ loss = <<0, 1>>

MainIdle ==
    /\ mpc = "idle" /\ dataArg = "" /\ fs = {} /\ opened = <<>>
    /\ train_dataset = "unset" /\ val_dataset = "unset" /\ startError = "none"

\* The state at line 48: modules, optimizer, scheduler and loaders built.
Init ==
    /\ pc = "loop"
    /\ epochs \in 1..MaxEpochs
    /\ nTrain \in 1..MaxBatches
    /\ nVal \in 1..MaxBatches
    /\ epoch = 0
    /\ batch_idx = 0
    /\ encoderTraining \in BOOLEAN
    /\ decoderTraining \in BOOLEAN
    /\ encoderParams = 0
    /\ decoderParams = 0
    /\ optimizer = [zero_grad |-> 0, step |-> 0]
    /\ scheduler = [last_epoch |-> 0]
    /\ losses = AverageMeter /\ top1 = AverageMeter /\ top5 = AverageMeter
    /\ passBatches = <<>>
    /\ batch = NoBatch
    /\ files = {}
    /\ written = [train |-> 0, val |-> 0]
    /\ trace = <<>>
    /\ failure = "none"
    /\ LossIdle
    /\ MainIdle

\* optimizer = optim.Adam(decoder.parameters(), lr=args.lr): the modules whose
\* parameters optimizer.step() updates.
OptimizerParams == {"decoder"}

\* optimizer.step() on the parameters (at version v) of a module.
Step(module, v) == IF module \in OptimizerParams THEN v + 1 ELSE v

\* A mutant of Raise: the exception is caught and the loop goes on.
RaiseSwallowed(cause) ==
    /\ failure' = cause
    /\ UNCHANGED <<pc, epochs, nTrain, nVal, epoch, batch_idx, encoderTraining,
                   decoderTraining, encoderParams, decoderParams, optimizer,
                   scheduler, losses, top1, top5, passBatches, batch, files,
                   written, trace>>
    /\ UNCHANGED <<lossVars, mainVars>>

\* An exception in main, train or validate: nothing catches it, it leaves main.
Raise(cause) ==
    /\ pc' = "failed"
    /\ failure' = cause
    /\ UNCHANGED <<epochs, nTrain, nVal, epoch, batch_idx, encoderTraining,
                   decoderTraining, encoderParams, decoderParams, optimizer,
                   scheduler, losses, top1, top5, passBatches, batch, files,
                   written, trace>>
    /\ UNCHANGED <<lossVars, mainVars>>

\* for epoch in range(1, args.epochs + 1): the next epoch, or the loop's end.
NextEpoch ==
    /\ pc = "loop"
    /\ failure = "none"
    /\ IF epoch < epochs
       THEN /\ epoch' = epoch + 1
            /\ pc' = "sched"
       ELSE /\ epoch' = epoch
            /\ pc' = "close"
    /\ UNCHANGED <<epochs, nTrain, nVal, batch_idx, encoderTraining,
                   decoderTraining, encoderParams, decoderParams, optimizer,
                   scheduler, losses, top1, top5, passBatches, batch, files,
                   written, trace, failure>>
    /\ UNCHANGED <<lossVars, mainVars>>

\* scheduler.step()
SchedulerStep ==
    /\ pc = "sched"
    /\ failure = "none"
    /\ scheduler' = [last_epoch |-> scheduler.last_epoch + 1]
    /\ trace' = Append(trace, <<"scheduler.step", epoch>>)
    /\ pc' = "train"
    /\ UNCHANGED <<epochs, nTrain, nVal, epoch, batch_idx, encoderTraining,
                   decoderTraining, encoderParams, decoderParams, optimizer,
                   losses, top1, top5, passBatches, batch, files, written,
                   failure>>
    /\ UNCHANGED <<lossVars, mainVars>>

SchedulerFail == pc = "sched" /\ failure = "none" /\ Raise("scheduler.step")

\* A mutant of TrainBegin: decoder.train() is left out.
TrainBeginNoDecoderTrain ==
    /\ pc = "train"
    /\ failure = "none"
    /\ encoderTraining' = FALSE
    /\ losses' = AverageMeter /\ top1' = AverageMeter /\ top5' = AverageMeter
    /\ passBatches' = <<>>
    /\ batch_idx' = 0
    /\ trace' = Append(trace, <<"train begin", epoch>>)
    /\ pc' = "train_batch"
    /\ UNCHANGED <<epochs, nTrain, nVal, epoch, decoderTraining, encoderParams,
                   decoderParams, optimizer, scheduler, batch, files, written,
                   failure>>
    /\ UNCHANGED <<lossVars, mainVars>>

\* A mutant of TrainBegin: the meters are kept from the pass before.
TrainBeginKeepsMeters ==
    /\ pc = "train"
    /\ failure = "none"
    /\ encoderTraining' = FALSE
    /\ decoderTraining' = TRUE
    /\ passBatches' = <<>>
    /\ batch_idx' = 0
    /\ trace' = Append(trace, <<"train begin", epoch>>)
    /\ pc' = "train_batch"
    /\ UNCHANGED <<epochs, nTrain, nVal, epoch, encoderParams, decoderParams,
                   optimizer, scheduler, losses, top1, top5, batch, files,
                   written, failure>>
    /\ UNCHANGED <<lossVars, mainVars>>

\* train(...) is entered: lines 63-68.
TrainBegin ==
    /\ pc = "train"
    /\ failure = "none"
    /\ encoderTraining' = FALSE
    /\ decoderTraining' = TRUE
    /\ losses' = AverageMeter /\ top1' = AverageMeter /\ top5' = AverageMeter
    /\ passBatches' = <<>>
    /\ batch_idx' = 0
    /\ trace' = Append(trace, <<"train begin", epoch>>)
    /\ pc' = "train_batch"
    /\ UNCHANGED <<epochs, nTrain, nVal, epoch, encoderParams, decoderParams,
                   optimizer, scheduler, batch, files, written, failure>>
    /\ UNCHANGED <<lossVars, mainVars>>

\* One iteration of train's loop, lines 69-100, on a batch of B captions of
\* length L whose forward pass turns out as o.
TrainBatch ==
    /\ pc = "train_batch"
    /\ failure = "none"
    /\ batch_idx < nTrain
    /\ \E B \in 1..MaxB, L \in 2..MaxL, o \in Outcomes :
         IF BatchRaises(B, L)
         THEN \* optimizer.zero_grad() has run, then line 76 raises
              /\ optimizer' = [optimizer EXCEPT !.zero_grad = @ + 1]
              /\ pc' = "failed"
              /\ failure' = "pack_padded_sequence"
              /\ UNCHANGED <<batch_idx, decoderParams, encoderParams, losses,
                             top1, top5, passBatches, batch, written>>
         ELSE LET p == Processed(B, L) IN
              /\ optimizer' = [zero_grad |-> optimizer.zero_grad + 1,
                               step |-> optimizer.step + 1]
              /\ decoderParams' = Step("decoder", decoderParams)
              /\ encoderParams' = Step("encoder", encoderParams)
              /\ losses' = Update(losses, o.loss, p.weight)
              /\ top1' = Update(top1, o.acc1, p.weight)
              /\ top5' = Update(top5, o.acc5, p.weight)
              /\ passBatches' = Append(passBatches,
                                       [value |-> o, weight |-> p.weight,
                                        entered |-> Len(p.targets)])
              /\ batch' = p
              /\ written' = [written EXCEPT !.train = @ + 3]
              /\ batch_idx' = batch_idx + 1
              /\ UNCHANGED <<pc, failure>>
    /\ UNCHANGED <<epochs, nTrain, nVal, epoch, encoderTraining,
                   decoderTraining, scheduler, files, trace>>
    /\ UNCHANGED <<lossVars, mainVars>>

\* The loader or the forward pass raises on a batch of the train pass.
TrainBatchFail ==
    /\ pc = "train_batch" /\ failure = "none" /\ batch_idx < nTrain
    /\ Raise("train batch")

\* A mutant of TrainEnd: validate is skipped.
TrainEndSkipsValidate ==
    /\ pc = "train_batch"
    /\ failure = "none"
    /\ batch_idx = nTrain
    /\ trace' = Append(trace, <<"train end", epoch>>)
    /\ pc' = "save"
    /\ UNCHANGED <<epochs, nTrain, nVal, epoch, batch_idx, encoderTraining,
                   decoderTraining, encoderParams, decoderParams, optimizer,
                   scheduler, losses, top1, top5, passBatches, batch, files,
                   written, failure>>
    /\ UNCHANGED <<lossVars, mainVars>>

\* The train loader is exhausted: train returns to main, line 53 is next.
TrainEnd ==
    /\ pc = "train_batch"
    /\ failure = "none"
    /\ batch_idx = nTrain
    /\ trace' = Append(trace, <<"train end", epoch>>)
    /\ pc' = "validate"
    /\ UNCHANGED <<epochs, nTrain, nVal, epoch, batch_idx, encoderTraining,
                   decoderTraining, encoderParams, decoderParams, optimizer,
                   scheduler, losses, top1, top5, passBatches, batch, files,
                   written, failure>>
    /\ UNCHANGED <<lossVars, mainVars>>

\* validate(...) is entered: lines 104-110.
ValidateBegin ==
    /\ pc = "validate"
    /\ failure = "none"
    /\ encoderTraining' = FALSE
    /\ decoderTraining' = FALSE
    /\ losses' = AverageMeter /\ top1' = AverageMeter /\ top5' = AverageMeter
    /\ passBatches' = <<>>
    /\ batch_idx' = 0
    /\ trace' = Append(trace, <<"validate begin", epoch>>)
    /\ pc' = "val_batch"
    /\ UNCHANGED <<epochs, nTrain, nVal, epoch, encoderParams, decoderParams,
                   optimizer, scheduler, batch, files, written, failure>>
    /\ UNCHANGED <<lossVars, mainVars>>

\* A mutant of ValidateBatch: the batch also steps the optimizer.
ValidateBatchSteps ==
    /\ pc = "val_batch"
    /\ failure = "none"
    /\ batch_idx < nVal
    /\ \E B \in 1..MaxB, L \in 2..MaxL, o \in Outcomes :
         IF BatchRaises(B, L)
         THEN /\ pc' = "failed"
              /\ failure' = "pack_padded_sequence"
              /\ UNCHANGED <<batch_idx, losses, top1, top5, passBatches,
                             batch, written, optimizer, decoderParams>>
         ELSE LET p == Processed(B, L) IN
              /\ optimizer' = [zero_grad |-> optimizer.zero_grad + 1,
                               step |-> optimizer.step + 1]
              /\ decoderParams' = decoderParams + 1
              /\ losses' = Update(losses, o.loss, p.weight)
              /\ top1' = Update(top1, o.acc1, p.weight)
              /\ top5' = Update(top5, o.acc5, p.weight)
              /\ passBatches' = Append(passBatches,
                                       [value |-> o, weight |-> p.weight,
                                        entered |-> Len(p.targets)])
              /\ batch' = p
              /\ written' = [written EXCEPT !.val = @ + 3]
              /\ batch_idx' = batch_idx + 1
              /\ UNCHANGED <<pc, failure>>
    /\ UNCHANGED <<epochs, nTrain, nVal, epoch, encoderTraining,
                   decoderTraining, encoderParams, scheduler, files, trace>>
    /\ UNCHANGED <<lossVars, mainVars>>

\* One iteration of validate's loop, lines 111-139.
ValidateBatch ==
    /\ pc = "val_batch"
    /\ failure = "none"
    /\ batch_idx < nVal
    /\ \E B \in 1..MaxB, L \in 2..MaxL, o \in Outcomes :
         IF BatchRaises(B, L)
         THEN /\ pc' = "failed"
              /\ failure' = "pack_padded_sequence"
              /\ UNCHANGED <<batch_idx, losses, top1, top5, passBatches,
                             batch, written>>
         ELSE LET p == Processed(B, L) IN
              /\ losses' = Update(losses, o.loss, p.weight)
              /\ top1' = Update(top1, o.acc1, p.weight)
              /\ top5' = Update(top5, o.acc5, p.weight)
              /\ passBatches' = Append(passBatches,
                                       [value |-> o, weight |-> p.weight,
                                        entered |-> Len(p.targets)])
              /\ batch' = p
              /\ written' = [written EXCEPT !.val = @ + 3]
              /\ batch_idx' = batch_idx + 1
              /\ UNCHANGED <<pc, failure>>
    /\ UNCHANGED <<epochs, nTrain, nVal, epoch, encoderTraining,
                   decoderTraining, encoderParams, decoderParams, optimizer,
                   scheduler, files, trace>>
    /\ UNCHANGED <<lossVars, mainVars>>

\* The loader or the forward pass raises on a batch of the validate pass.
ValidateBatchFail ==
    /\ pc = "val_batch" /\ failure = "none" /\ batch_idx < nVal
    /\ Raise("validate batch")

\* The validation loader is exhausted: validate returns, line 55 is next.
ValidateEnd ==
    /\ pc = "val_batch"
    /\ failure = "none"
    /\ batch_idx = nVal
    /\ trace' = Append(trace, <<"validate end", epoch>>)
    /\ pc' = "save"
    /\ UNCHANGED <<epochs, nTrain, nVal, epoch, batch_idx, encoderTraining,
                   decoderTraining, encoderParams, decoderParams, optimizer,
                   scheduler, losses, top1, top5, passBatches, batch, files,
                   written, failure>>
    /\ UNCHANGED <<lossVars, mainVars>>

\* Lines 55-57: torch.save(decoder.state_dict(), model_file).
SaveCheckpoint ==
    /\ pc = "save"
    /\ failure = "none"
    /\ LET model_file == ModelFile(epoch) IN
       files' = {f \in files : f.path # model_file}
                \cup {[path |-> model_file, content |-> StateDict(decoderParams)]}
    /\ trace' = Append(trace, <<"torch.save", epoch>>)
    /\ pc' = "loop"
    /\ UNCHANGED <<epochs, nTrain, nVal, epoch, batch_idx, encoderTraining,
                   decoderTraining, encoderParams, decoderParams, optimizer,
                   scheduler, losses, top1, top5, passBatches, batch, written,
                   failure>>
    /\ UNCHANGED <<lossVars, mainVars>>

SaveFail == pc = "save" /\ failure = "none" /\ Raise("torch.save")

\* Lines 58-59: the writers are closed and main returns.
Close ==
    /\ pc = "close"
    /\ failure = "none"
    /\ pc' = "done"
    /\ UNCHANGED <<epochs, nTrain, nVal, epoch, batch_idx, encoderTraining,
                   decoderTraining, encoderParams, decoderParams, optimizer,
                   scheduler, losses, top1, top5, passBatches, batch, files,
                   written, trace, failure>>
    /\ UNCHANGED <<lossVars, mainVars>>

Next ==
    \/ NextEpoch
    \/ SchedulerStep
    \/ SchedulerFail
    \/ TrainBegin
    \/ TrainBatch
    \/ TrainBatchFail
    \/ TrainEnd
    \/ ValidateBegin
    \/ ValidateBatch
    \/ ValidateBatchFail
    \/ ValidateEnd
    \/ SaveCheckpoint
    \/ SaveFail
    \/ Close

Spec == Init /\ [][Next]_vars

(***************************************************************************)
(* The loss of one batch, lines 79-82 of train (120-123 of validate).      *)
(* Numbers are exact rationals <<n, d>> with d > 0, in lowest terms.       *)
(***************************************************************************)
MaxSamples == 2     \* samples in the batch: 1..MaxSamples
MaxSteps == 3       \* decoding steps of the batch: 1..MaxSteps
MaxLocations == 4   \* spatial locations of the feature map: 1..MaxLocations

Abs(n) == IF n < 0 THEN -n ELSE n

RECURSIVE GCD(_, _)
GCD(a, b) == IF b = 0 THEN a ELSE GCD(b, a % b)

Rat(n, d) ==
    LET g == GCD(Abs(n), d) IN
    IF n = 0 THEN <<0, 1>> ELSE <<n \div g, d \div g>>

RAdd(x, y) == Rat(x[1] * y[2] + y[1] * x[2], x[2] * y[2])
RSub(x, y) == Rat(x[1] * y[2] - y[1] * x[2], x[2] * y[2])
RMul(x, y) == Rat(x[1] * y[1], x[2] * y[2])
RDivInt(x, n) == Rat(x[1], x[2] * n)

RECURSIVE RSum(_)
RSum(s) == IF s = <<>> THEN <<0, 1>> ELSE RAdd(Head(s), RSum(Tail(s)))

\* x.sum(1) of a tensor of shape [B, T, K]: shape [B, K].
SumDim1(x) ==
    [b \in 1..Len(x) |->
        [k \in 1..Len(x[b][1]) |->
            RSum([t \in 1..Len(x[b]) |-> x[b][t][k]])]]

\* x.sum(2) of a tensor of shape [B, T, K]: shape [B, T].
SumDim2(x) ==
    [b \in 1..Len(x) |-> [t \in 1..Len(x[b]) |-> RSum(x[b][t])]]

\* (1 - y) ** 2, elementwise on a matrix.
OneMinusSquared(y) ==
    [b \in 1..Len(y) |->
        [k \in 1..Len(y[b]) |->
            RMul(RSub(<<1, 1>>, y[b][k]), RSub(<<1, 1>>, y[b][k]))]]

\* y.mean() of a matrix: the sum of its entries over their number.
Mean(y) ==
    RDivInt(RSum([b \in 1..Len(y) |-> RSum(y[b])]), Len(y) * Len(y[1]))

\* A mutant of AttRegularization: the sum runs over the locations.
AttRegularizationOverLocations(a, x) == RMul(a, Mean(OneMinusSquared(SumDim2(x))))

\* att_regularization = alpha_c * ((1 - alphas.sum(1))**2).mean()
AttRegularization(a, x) == RMul(a, Mean(OneMinusSquared(SumDim1(x))))

\* The attention rows a decoder hands out for one sample: at every step the
\* same weight on every location, all of it on the first location, or all of
\* it on a location that moves with the step.
Patterns == {"uniform", "first", "sweep"}

AttentionRow(pattern, t, K) ==
    [k \in 1..K |->
        CASE pattern = "uniform" -> Rat(1, K)
          [] pattern = "first"   -> IF k = 1 THEN <<1, 1>> ELSE <<0, 1>>
          [] pattern = "sweep"   -> IF k = ((t - 1) % K) + 1 THEN <<1, 1>> ELSE <<0, 1>>]

\* --alpha-c (default 1) and the values of the cross-entropy tried.
AlphaCs == {<<0, 1>>, <<1, 1>>, <<1, 2>>}
CrossEntropies == {<<0, 1>>, <<3, 2>>}

InitLoss ==
    /\ lpc = "forward"
    /\ alpha_c \in AlphaCs
    /\ ce \in CrossEntropies
    /\ \E B \in 1..MaxSamples, T \in 1..MaxSteps, K \in 1..MaxLocations :
         \E pat \in [1..B -> Patterns] :
            alphas = [b \in 1..B |-> [t \in 1..T |-> AttentionRow(pat[b], t, K)]]
    /\ att_regularization = <<0, 1>>
    /\ loss = <<0, 1>>
    /\ LoopIdle
    /\ MainIdle

\* Lines 79-82: the regularization term, the cross-entropy, their sum.
ComputeLoss ==
    /\ lpc = "forward"
    /\ att_regularization' = AttRegularization(alpha_c, alphas)
    /\ loss' = RAdd(ce, att_regularization')
    /\ lpc' = "done"
    /\ UNCHANGED <<alpha_c, alphas, ce>>
    /\ UNCHANGED <<loopVars, mainVars>>

NextLoss == ComputeLoss

SpecLoss == InitLoss /\ [][NextLoss]_vars

\* The shape of alphas.
NumSamples == Len(alphas)
NumSteps == Len(alphas[1])
NumLocations == Len(alphas[1][1])

\* (1 - the attention location k of sample b gets over all steps) squared.
CoverageGap(b, k) ==
    LET total == RSum([t \in 1..NumSteps |-> alphas[b][t][k]])
        gap   == RSub(<<1, 1>>, total)
    IN  RMul(gap, gap)

\* C6: the regularization term is alpha_c times the mean over the (sample,
\* location) pairs of (1 - the location's attention summed over the steps)^2,
\* and the loss is the cross-entropy plus it; with 2 samples, 3 steps, 4
\* locations, alpha_c = 1 and every weight 1/4 the term is 1/16, and so is the
\* loss when the cross-entropy is 0.
C6_AttentionRegularization ==
    lpc = "done" =>
        /\ RMul(att_regularization, <<NumSamples * NumLocations, 1>>) =
              RMul(alpha_c,
                   RSum([i \in 1..(NumSamples * NumLocations) |->
                           CoverageGap(((i - 1) \div NumLocations) + 1,
                                       ((i - 1) % NumLocations) + 1)]))
        /\ loss = RAdd(ce, att_regularization)
        /\ ( /\ NumSamples = 2 /\ NumSteps = 3 /\ NumLocations = 4
             /\ alpha_c = <<1, 1>>
             /\ \A b \in 1..2, t \in 1..3, k \in 1..4 : alphas[b][t][k] = <<1, 4>> )
           => /\ att_regularization = <<1, 16>>
              /\ ce = <<0, 1>> => loss = <<1, 16>>

C6_Witness ==
    /\ lpc = "done"
    /\ NumSamples = 2 /\ NumSteps = 3 /\ NumLocations = 4
    /\ alpha_c = <<1, 1>> /\ ce = <<0, 1>>
    /\ \A b \in 1..2, t \in 1..3, k \in 1..4 : alphas[b][t][k] = <<1, 4>>
    /\ loss = <<1, 16>>

(***************************************************************************)
(* The set-up code of main, lines 24-48, and ImageCaptionDataset.__init__. *)
(* A string is the sequence of its pieces, + and format are \o.            *)
(***************************************************************************)
\* Values of --data (default 'data/coco').
DataArgs == { <<"data", "/", "coco">>, <<"data">>, <<"train">> }

\* Files that may exist: under the data path, and in the working directory
\* under the names a split or the data path itself gives.
WordDictFile(d) == d \o <<"/", "word_dict.json">>
SplitFilesUnder(d, split) ==
    { d \o <<"/", split, "_img_paths.json">>, d \o <<"/", split, "_captions.json">> }
FileGroups(d) ==
    { {WordDictFile(d)},
      SplitFilesUnder(d, "train"),
      SplitFilesUnder(d, "val"),
      {d \o <<"_img_paths.json">>},
      {d \o <<"_captions.json">>},
      {<<"val", "_img_paths.json">>, <<"val", "_captions.json">>} }

\* def __init__(self, transform, split_type='train'): the parameters after
\* self, and those that have a default.
InitParams == <<"transform", "split_type">>
InitDefaults == [split_type |-> <<"train">>]

\* Python's binding of a call's arguments to the parameters of __init__:
\* positional arguments fill the parameters in order, keyword arguments by
\* name, defaults fill the rest; a parameter given twice, an unknown keyword,
\* too many arguments or a parameter left without a value is a TypeError.
BindInit(positional, keywords) ==
    LET byPosition == {InitParams[i] : i \in 1..Len(InitParams)} \cap
                      {InitParams[i] : i \in 1..Len(positional)}
        names == {InitParams[i] : i \in 1..Len(InitParams)}
        index(n) == CHOOSE i \in 1..Len(InitParams) : InitParams[i] = n
    IN  IF \/ Len(positional) > Len(InitParams)
           \/ \E n \in DOMAIN keywords : n \notin names \/ n \in byPosition
           \/ \E n \in names :
                 n \notin byPosition /\ n \notin DOMAIN keywords
                 /\ n \notin DOMAIN InitDefaults
        THEN [error |-> "TypeError"]
        ELSE [error |-> "none",
              args |-> [n \in names |->
                          IF n \in byPosition THEN positional[index(n)]
                          ELSE IF n \in DOMAIN keywords THEN keywords[n]
                          ELSE InitDefaults[n]]]

\* The body of __init__, lines 16-22: the two files it opens, in order.
DatasetFiles(split_type) ==
    [img_paths |-> split_type \o <<"_img_paths.json">>,
     captions  |-> split_type \o <<"_captions.json">>]

\* ImageCaptionDataset(*positional, **keywords) on a file system: the exception
\* it raises, or the files the dataset was loaded from.
NewDataset(positional, keywords, files_) ==
    LET bound == BindInit(positional, keywords) IN
    IF bound.error # "none" THEN [error |-> bound.error]
    ELSE LET f == DatasetFiles(bound.args.split_type) IN
         IF f.img_paths \notin files_ \/ f.captions \notin files_
         THEN [error |-> "FileNotFoundError"]
         ELSE [error |-> "none", loaded |-> f]

NoKeywords == [n \in {} |-> <<>>]

InitMain ==
    /\ mpc = "word_dict"
    /\ dataArg \in DataArgs
    /\ \E G \in SUBSET FileGroups(dataArg) : fs = UNION G
    /\ opened = <<>>
    /\ train_dataset = "unset"
    /\ val_dataset = "unset"
    /\ startError = "none"
    /\ LoopIdle
    /\ LossIdle

\* Lines 25-28: word_dict = json.load(open(args.data + '/word_dict.json')).
LoadWordDict ==
    /\ mpc = "word_dict"
    /\ opened' = Append(opened, WordDictFile(dataArg))
    /\ IF WordDictFile(dataArg) \in fs
       THEN mpc' = "build" /\ startError' = startError
       ELSE mpc' = "failed" /\ startError' = "FileNotFoundError"
    /\ UNCHANGED <<dataArg, fs, train_dataset, val_dataset>>
    /\ UNCHANGED <<loopVars, lossVars>>

\* Lines 30-38: encoder, decoder, optimizer, scheduler, loss function.
BuildModel ==
    /\ mpc = "build"
    /\ mpc' = "train_loader"
    /\ UNCHANGED <<dataArg, fs, opened, train_dataset, val_dataset, startError>>
    /\ UNCHANGED <<loopVars, lossVars>>

\* Lines 40-42: ImageCaptionDataset(data_transforms, args.data).
MakeTrainLoader ==
    /\ mpc = "train_loader"
    /\ LET d == NewDataset(<<"data_transforms", dataArg>>, NoKeywords, fs) IN
       IF d.error = "none"
       THEN /\ train_dataset' = d.loaded
            /\ opened' = opened \o <<d.loaded.img_paths, d.loaded.captions>>
            /\ mpc' = "val_loader"
            /\ startError' = startError
       ELSE /\ train_dataset' = train_dataset
            /\ opened' = opened
            /\ mpc' = "failed"
            /\ startError' = d.error
    /\ UNCHANGED <<dataArg, fs, val_dataset>>
    /\ UNCHANGED <<loopVars, lossVars>>

\* Lines 44-46: ImageCaptionDataset(data_transforms, args.data,
\* split_type='val'); line 48 is next.  With __init__ as it is, split_type
\* is given twice and the call raises TypeError on every input.
MakeValLoader ==
    /\ mpc = "val_loader"
    /\ LET d == NewDataset(<<"data_transforms", dataArg>>,
                           [split_type |-> <<"val">>], fs) IN
       IF d.error = "none"
       THEN /\ val_dataset' = d.loaded
            /\ opened' = opened \o <<d.loaded.img_paths, d.loaded.captions>>
            /\ mpc' = "epoch_loop"
            /\ startError' = startError
       ELSE /\ val_dataset' = val_dataset
            /\ opened' = opened
            /\ mpc' = "failed"
            /\ startError' = d.error
    /\ UNCHANGED <<dataArg, fs, train_dataset>>
    /\ UNCHANGED <<loopVars, lossVars>>

NextMain ==
    \/ LoadWordDict
    \/ BuildModel
    \/ MakeTrainLoader
    \/ MakeValLoader

SpecMain == InitMain /\ [][NextMain]_vars

\* The data path holds the word dictionary and both splits' files.
DataPathComplete ==
    {WordDictFile(dataArg)} \cup SplitFilesUnder(dataArg, "train")
        \cup SplitFilesUnder(dataArg, "val") \subseteq fs

SplitFiles(split) ==
    [img_paths |-> dataArg \o <<"/", split, "_img_paths.json">>,
     captions  |-> dataArg \o <<"/", split, "_captions.json">>]

\* C10: with the data path's files in place the set-up code of main builds
\* both datasets without an exception, the training one from the train
\* split's files and the validation one from the val split's files under the
\* data path, and so gets to the first epoch.
C10_StartupLoadsBothSplits ==
    DataPathComplete =>
        /\ startError = "none"
        /\ mpc \notin {"word_dict", "build", "train_loader"} =>
              train_dataset = SplitFiles("train")
        /\ mpc \notin {"word_dict", "build", "train_loader", "val_loader"} =>
              val_dataset = SplitFiles("val")

(***************************************************************************)
(* Claims about the epoch loop, checked under Spec.                        *)
(***************************************************************************)
InPass == pc \in {"train_batch", "val_batch"}

EnteredSum == SumSeq([i \in 1..Len(passBatches) |-> passBatches[i].entered])
WeightSum == SumSeq([i \in 1..Len(passBatches) |-> passBatches[i].weight])
LossSum ==
    SumSeq([i \in 1..Len(passBatches) |->
               passBatches[i].value.loss * passBatches[i].weight])
Acc1Sum ==
    SumSeq([i \in 1..Len(passBatches) |->
               passBatches[i].value.acc1 * passBatches[i].weight])
Acc5Sum ==
    SumSeq([i \in 1..Len(passBatches) |->
               passBatches[i].value.acc5 * passBatches[i].weight])

\* C1: in every pass the weights given to the update calls of the loss, top-1
\* and top-5 meters add up to the number of target positions that entered the
\* loss and accuracy computation of the pass's batches.
C1_WeightsEqualValidTokens == InPass => WeightSum = EnteredSum

\* The target positions of a batch of B captions of length L: positions
\* 1 .. L-1 of every caption.
TargetPositions(B, L) == {<<b, j>> : b \in 1..B, j \in 1..(L - 1)}

\* C2: for every batch of B captions of length L with L-1 >= 1 the flattened
\* targets and predictions cover exactly the B*(L-1) positions [1, L) of every
\* caption, and the computation does not fail.
C2_FlattenCoversAllTargets ==
    /\ failure # "pack_padded_sequence"
    /\ batch # NoBatch =>
          /\ Len(batch.targets) = batch.B * (batch.L - 1)
          /\ Range(batch.targets) = TargetPositions(batch.B, batch.L)
          /\ Len(batch.preds) = batch.B * (batch.L - 1)
          /\ Range(batch.preds) = TargetPositions(batch.B, batch.L)

EventIndex(ev) == CHOOSE i \in 1..Len(trace) : trace[i] = ev

\* C4: when main has run its E epochs, exactly E checkpoint files exist, one
\* per epoch 1..E with the epoch in its path, each the decoder's parameters
\* alone, each written after that epoch's validate pass ended.
C4_CheckpointPerEpoch ==
    pc = "done" =>
        /\ Cardinality(files) = epochs
        /\ {f.path : f \in files} =
              {<<"model/model_", Str(e), ".pth">> : e \in 1..epochs}
        /\ \A f \in files : \E e \in 1..epochs :
              /\ f.path = <<"model/model_", Str(e), ".pth">>
              /\ f.content = [module |-> "decoder", params |-> e * nTrain]
              /\ <<"validate end", e>> \in Range(trace)
              /\ <<"torch.save", e>> \in Range(trace)
              /\ EventIndex(<<"validate end", e>>) < EventIndex(<<"torch.save", e>>)

C4_Witness == pc = "done" /\ epochs >= 2 /\ Cardinality(files) >= 2

EpochSteps == <<"scheduler.step", "train begin", "train end",
                "validate begin", "validate end", "torch.save">>

\* C5: the steps of main come in the order scheduler step, train pass,
\* validate pass, checkpoint write, each once per epoch, epoch after epoch.
C5_StepsInOrder ==
    /\ \A i \in 1..Len(trace) :
          trace[i] = <<EpochSteps[((i - 1) % Len(EpochSteps)) + 1],
                       ((i - 1) \div Len(EpochSteps)) + 1>>
    /\ Len(trace) <= Len(EpochSteps) * epoch
    /\ pc = "done" => Len(trace) = Len(EpochSteps) * epochs

C5_Witness ==
    /\ pc = "sched" /\ epoch = 2
    /\ Len(trace) = Len(EpochSteps)
    /\ trace[Len(trace)] = <<"torch.save", 1>>

\* C7: a failure of a step is not caught: main stops there, nothing runs
\* after it, and the checkpoints are those of the epochs before the failing
\* one.
C7_FailureIsFatal ==
    /\ [](failure # "none" =>
            /\ pc = "failed"
            /\ {f.path : f \in files} =
                  {<<"model/model_", Str(e), ".pth">> : e \in 1..(epoch - 1)})
    /\ [][failure # "none" => UNCHANGED vars]_vars

C7_Witness ==
    /\ failure = "train batch" /\ epoch = 2 /\ batch_idx = 1
    /\ Cardinality(files) = 1

\* C8: in every batch of every pass the encoder is in eval mode; the decoder
\* is in training mode in a train pass and in eval mode in a validate pass.
C8_ModesPerPass ==
    /\ pc = "train_batch" => ~encoderTraining /\ decoderTraining
    /\ pc = "val_batch" => ~encoderTraining /\ ~decoderTraining

\* A train batch of the second epoch, after the first epoch's validate pass.
C8_Witness ==
    /\ pc = "train_batch" /\ epoch = 2 /\ batch_idx = 1
    /\ decoderTraining /\ written.val > 0

\* C9: the meters are fresh when a pass starts, and at every batch of a pass
\* hold the weighted sums of that pass's batches alone.
C9_MetersArePerPass ==
    InPass =>
        /\ batch_idx = 0 =>
              losses = AverageMeter /\ top1 = AverageMeter /\ top5 = AverageMeter
        /\ losses = [sum |-> LossSum,
                     count |-> WeightSum]
        /\ top1 = [sum |-> Acc1Sum,
                   count |-> WeightSum]
        /\ top5 = [sum |-> Acc5Sum,
                   count |-> WeightSum]

\* The second epoch's train pass has processed a batch, after two passes of
\* the first epoch that processed batches.
C9_Witness ==
    /\ pc = "train_batch" /\ epoch = 2 /\ batch_idx = 1
    /\ written.val > 0 /\ losses.count = batch.weight /\ losses.count > 0

====
